---- MODULE Spec2Model ----
(***************************************************************************)
(* Model of the queued, cached revision of the Philaxmed scraping server   *)
(* (src/unnamed/part_001; the second half of src/server.js carries the     *)
(* same getBrowser / processQueue / queueRequest).                         *)
(*                                                                         *)
(* The Node.js event loop runs one callback at a time.  An action below is *)
(* one such callback run up to its next await on an external operation     *)
(* (browser launch/close, page creation, navigation, DOM evaluation); the  *)
(* outcome of the awaited external operation is a nondeterministic input.  *)
(*                                                                         *)
(* The functions that compute a value from their arguments alone           *)
(* (normalizeStringNode, clickButtonByText given what the page does, the   *)
(* extraction and payload of the three handlers given the rendered page)   *)
(* are operators; PureSpec applies each of them once to every argument of  *)
(* a bounded set.                                                          *)
(*                                                                         *)
(* LegacySpec is the browser life cycle of the earlier queued revision     *)
(* (src/unnamed/part_000), whose getBrowser has another threshold.         *)
(***************************************************************************)
EXTENDS Integers, Sequences, FiniteSets, TLC

VARIABLES
    browser,        \* `let browser = null`: 0 is null, k > 0 the handle of the k-th launch
    requestCount,   \* `let requestCount = 0`
    isProcessing,   \* `let isProcessing = false`
    requestQueue,   \* `const requestQueue = []`: jobs waiting, head first
    timers,         \* pending setTimeout(processQueue, 1500) callbacks, oldest first
    running,        \* handlers that were dequeued and have not settled yet
    nextId,         \* number of queueRequest calls made so far
    launchCount,    \* number of browsers launched so far (mock launch counter)
    closeCalls,     \* the browser.close() calls made: handle and whether close succeeded
    startLog,       \* ids of the jobs in the order their handlers started
    settleLog,      \* ids of the jobs in the order their promises settled
    lastSettle,     \* the most recent settlement
    CACHE,          \* `const CACHE = {...}`
    clock,          \* Date.now(), in units of 30 s
    openPages,      \* ids of the jobs whose page was created and has not had close called
    lastResponse,   \* the response most recently sent by an endpoint
    call            \* a call of one of the program's pure functions: argument and result

vars == <<browser, requestCount, isProcessing, requestQueue, timers, running,
          nextId, launchCount, closeCalls, startLog, settleLog, lastSettle,
          CACHE, clock, openPages, lastResponse, call>>

\* ------------------------------------------------------------------ bounds
MaxJobs == 7        \* queueRequest calls in one behaviour of Spec (a recycle needs 7)
MaxBacklog == 1     \* jobs waiting in requestQueue at once in Spec and ApiSpec
MaxQueue == 2       \* jobs waiting in requestQueue at once in LiveSpec
MaxLiveJobs == 4    \* queueRequest calls in one behaviour of LiveSpec
MaxApiJobs == 2     \* queueRequest calls in one behaviour of ApiSpec
MaxClock == 12      \* latest instant of ApiSpec, in clock units
MaxLines == 3       \* lines of the rendered text scanned for slots in PureSpec
MaxProfLines == 4   \* lines of the rendered text scanned for practitioners in PureSpec
MaxElems == 2       \* elements, and lines, scanned for specialties in PureSpec
MaxCands == 2       \* elements matching the selector of clickElementInSelectorByText in PureSpec
MaxLegacyJobs == 13 \* workflows in one behaviour of LegacySpec (a restart needs 12)
MaxLen == 4         \* characters of a string passed to normalizeStringNode in PureSpec

\* --------------------------------------------------------------- constants
RecycleThreshold == 6
NoBrowser == 0

\* one clock unit is 30 s; the TTLs of lines 77, 105, 107 and 733 in clock units
TtlEspecialidades == 10
TtlProfesionales == 10
TtlHorasDefault == 1
TtlHoras == 2

\* the query of a request; "" stands for an absent parameter
Query(kind, agenda, especialidad, profesional, fecha) ==
    [kind |-> kind, agenda |-> agenda, especialidad |-> especialidad,
     profesional |-> profesional, fecha |-> fecha]

\* the requests submitted in Spec: one per endpoint, parameters as in the
\* examples of lines 209-211
Queries ==
    { Query("especialidades", "kineyfisio", "", "", ""),
      Query("profesionales", "kineyfisio", "KINESIOLOGIA", "", ""),
      Query("horas", "kineyfisio", "KINESIOLOGIA", "NOMBRE", "") }

NoSettle == [id |-> 0, promise |-> "none", cause |-> "none"]

NoResponse == [id |-> 0, via |-> "none", status |-> 0]

NoCall == [fn |-> "none", done |-> FALSE]

\* the handler closure handed to queueRequest, at its first statement
NewHandler(job) ==
    [id |-> job.id, kind |-> job.q.kind, q |-> job.q, pc |-> "getBrowser",
     handle |-> NoBrowser, page |-> "none", outcome |-> "none", cause |-> "none",
     obs |-> "none"]

Range(s) == {s[i] : i \in 1..Len(s)}

\* --------------------------------------------------------------------- cache
NoData == [success |-> FALSE, kind |-> "null"]      \* `data: null`

\* lines 328, 463: the cacheKey template strings
CacheKey(q) ==
    IF q.kind = "profesionales" THEN q.agenda \o "|" \o q.especialidad
    ELSE IF q.kind = "horas"
    THEN q.agenda \o "|" \o q.especialidad \o "|" \o q.profesional
    ELSE ""

\* `ttl || dflt`: 0 stands for an absent ttl
OrDefault(ttl, dflt) == IF ttl = 0 THEN dflt ELSE ttl

\* lines 84-99 with `<=` in place of `<`
getCacheInclusive(cache, now, type, key, ttl) ==
    IF type = "especialidades"
    THEN LET c == cache.especialidades IN
         IF c.data # NoData /\ (now - c.ts) <= OrDefault(ttl, c.ttl) THEN c.data ELSE NoData
    ELSE IF type \in {"profesionales", "horas"}
    THEN LET m == cache[type] IN
         IF key \in DOMAIN m /\ (now - m[key].ts) <= OrDefault(ttl, m[key].ttl)
         THEN m[key].data ELSE NoData
    ELSE NoData

\* lines 84-99; the result NoData is the miss (null)
getCache(cache, now, type, key, ttl) ==
    IF type = "especialidades"
    THEN LET c == cache.especialidades IN
         IF c.data # NoData /\ (now - c.ts) < OrDefault(ttl, c.ttl) THEN c.data ELSE NoData
    ELSE IF type \in {"profesionales", "horas"}
    THEN LET m == cache[type] IN
         IF key \in DOMAIN m /\ (now - m[key].ts) < OrDefault(ttl, m[key].ttl)
         THEN m[key].data ELSE NoData
    ELSE NoData

\* CACHE.profesionales[key] = entry
Put(m, key, entry) == [k \in DOMAIN m \cup {key} |-> IF k = key THEN entry ELSE m[k]]

\* lines 101-109
setCache(cache, now, type, key, ttl, data) ==
    IF type = "especialidades"
    THEN [cache EXCEPT !.especialidades =
            [ts |-> now, ttl |-> OrDefault(ttl, cache.especialidades.ttl), data |-> data]]
    ELSE IF type = "profesionales"
    THEN [cache EXCEPT !.profesionales =
            Put(@, key, [ts |-> now, ttl |-> OrDefault(ttl, TtlProfesionales), data |-> data])]
    ELSE IF type = "horas"
    THEN [cache EXCEPT !.horas =
            Put(@, key, [ts |-> now, ttl |-> OrDefault(ttl, TtlHorasDefault), data |-> data])]
    ELSE cache

\* lines 76-80: every entry the cache holds
Entries(cache) ==
    {cache.especialidades}
        \cup {cache.profesionales[k] : k \in DOMAIN cache.profesionales}
        \cup {cache.horas[k] : k \in DOMAIN cache.horas}

\* lines 289-300, 425-436, 718-731: responseObj, without the extracted list
ResponseObj(q) ==
    [success |-> TRUE, kind |-> q.kind, agenda |-> q.agenda,
     especialidad |-> q.especialidad, profesional |-> q.profesional, fecha |-> q.fecha]

\* lines 303, 438, 733: the ttl argument of the handler's setCache call
TtlArg(kind) == IF kind = "horas" THEN TtlHoras ELSE 0

\* ------------------------------------------------------------ processQueue
\* line 113: `if (isProcessing || requestQueue.length === 0) return;`
CanDequeueNoFlag(flag, q) == Len(q) > 0

CanDequeue(flag, q) == ~flag /\ Len(q) > 0

\* line 115: `requestQueue.shift()`
ShiftLast(q) == [job |-> q[Len(q)], rest |-> SubSeq(q, 1, Len(q) - 1)]

\* line 115 with the job read and left in the queue
ShiftPeek(q) == [job |-> q[1], rest |-> q]

Shift(q) == [job |-> Head(q), rest |-> Tail(q)]

\* processQueue up to `await handler()`, applied to the queue contents q
ProcessQueue(q) ==
    IF CanDequeue(isProcessing, q)
    THEN LET s == Shift(q) IN
         /\ isProcessing' = TRUE
         /\ requestQueue' = s.rest
         /\ running' = running \cup {NewHandler(s.job)}
         /\ startLog' = Append(startLog, s.job.id)
    ELSE /\ isProcessing' = isProcessing
         /\ requestQueue' = q
         /\ running' = running
         /\ startLog' = startLog

\* lines 127-132: queueRequest pushes the job and calls processQueue
QueueRequest(q) ==
    /\ nextId' = nextId + 1
    /\ ProcessQueue(Append(requestQueue, [id |-> nextId + 1, q |-> q]))
    /\ UNCHANGED <<browser, requestCount, timers, launchCount, closeCalls,
                   settleLog, lastSettle, CACHE, clock, openPages, lastResponse, call>>

\* the callback of `setTimeout(processQueue, 1500)`; equal delays fire in
\* the order in which they were scheduled
TimerFire ==
    /\ timers # <<>>
    /\ timers' = Tail(timers)
    /\ ProcessQueue(requestQueue)
    /\ UNCHANGED <<browser, requestCount, nextId, launchCount, closeCalls,
                   settleLog, lastSettle, CACHE, clock, openPages, lastResponse, call>>

\* lines 118-120: resolve(result) / reject(error)
PromiseOfAlwaysResolved(outcome) == "resolved"

PromiseOf(outcome) == IF outcome = "throw" THEN "rejected" ELSE "resolved"

\* line 122, `isProcessing = false` in the finally block
FlagAfterSettleStuck(outcome) == outcome = "throw"

FlagAfterSettle(outcome) == FALSE

\* line 123, `setTimeout(processQueue, 1500)` in the finally block
ScheduleNextOnSuccessOnly(ts, id, outcome) ==
    IF outcome = "throw" THEN ts ELSE Append(ts, id)

ScheduleNext(ts, id, outcome) == Append(ts, id)

\* lines 375, 564, 599: the structured failure a handler returns
SoftFailure(cause) ==
    [success |-> FALSE,
     error |-> IF cause = "especialidad" THEN "No se pudo seleccionar la especialidad"
               ELSE "No se pudo seleccionar el profesional"]

\* the value the handler of w returns (for a throw: the error it throws)
Result(w, outcome, cause) ==
    IF outcome = "ok" THEN ResponseObj(w.q)
    ELSE IF outcome = "soft" THEN SoftFailure(cause)
    ELSE [success |-> FALSE, error |-> cause]

\* lines 310-314, 445-449, 740-744: `res.json(result)` after the await, or
\* `res.status(500).json({success:false, error: error.message})` in the catch
EndpointResponse(w, promise, result) ==
    [id |-> w.id, via |-> "queue",
     status |-> IF promise = "rejected" THEN 500 ELSE 200,
     body |-> result]

\* lines 116-124: the handler w has returned or thrown; processQueue resumes,
\* then the endpoint that awaited queueRequest responds
Settle(w, outcome, cause) ==
    /\ running' = running \ {w}
    /\ isProcessing' = FlagAfterSettle(outcome)
    /\ timers' = ScheduleNext(timers, w.id, outcome)
    /\ settleLog' = Append(settleLog, w.id)
    /\ lastSettle' = [id |-> w.id, promise |-> PromiseOf(outcome), cause |-> cause]
    /\ lastResponse' = EndpointResponse(w, PromiseOf(outcome), Result(w, outcome, cause))
    /\ UNCHANGED <<requestQueue, nextId, startLog, call>>

\* the handler w goes on as v and awaits its next operation
Continue(w, v) ==
    /\ running' = (running \ {w}) \cup {v}
    /\ UNCHANGED <<isProcessing, requestQueue, timers, nextId, startLog, settleLog,
                   lastSettle, lastResponse, call>>

\* -------------------------------------------------------------- getBrowser
\* line 42: `if (browser && requestCount >= 6)`
NeedsRecycleAlways(b, n) == b # NoBrowser

NeedsRecycle(b, n) == b # NoBrowser /\ n >= RecycleThreshold

\* lines 44-46: close (failure swallowed), `browser = null; requestCount = 0`
RecycleKeepHandle(b, n, closeOk) ==
    [browser |-> b, requestCount |-> 0, closed |-> {[handle |-> b, ok |-> closeOk]}]

\* lines 44-46 without `requestCount = 0`
RecycleKeepCount(b, n, closeOk) ==
    [browser |-> NoBrowser, requestCount |-> n, closed |-> {[handle |-> b, ok |-> closeOk]}]

Recycle(b, n, closeOk) ==
    [browser |-> NoBrowser, requestCount |-> 0, closed |-> {[handle |-> b, ok |-> closeOk]}]

\* lines 49-71: a failed launch throws before `browser =` is assigned
LaunchStale(b, h, launchOk) == h

Launch(b, h, launchOk) == IF launchOk THEN h ELSE b

\* lines 41-73: getBrowser as called by handler w
GetBrowser(w, closeOk, launchOk) ==
    LET r == IF NeedsRecycle(browser, requestCount)
             THEN Recycle(browser, requestCount, closeOk)
             ELSE [browser |-> browser, requestCount |-> requestCount, closed |-> {}]
        launches == r.browser = NoBrowser
        b2 == IF launches THEN Launch(r.browser, launchCount + 1, launchOk) ELSE r.browser
    IN
    /\ w.pc = "getBrowser"
    /\ (launches \/ launchOk)       \* launchOk is an input of the launch only
    /\ (r.closed # {} \/ closeOk)  \* closeOk is an input of the close only
    /\ browser' = b2
    /\ requestCount' = r.requestCount
    /\ closeCalls' = closeCalls \cup r.closed
    /\ launchCount' = IF launches /\ launchOk THEN launchCount + 1 ELSE launchCount
    /\ UNCHANGED <<CACHE, clock, openPages>>
    /\ IF launches /\ ~launchOk
       THEN Settle(w, "throw", "launch")
       ELSE Continue(w, [w EXCEPT !.pc = "newPage", !.handle = b2])

\* ------------------------------------------------------- workflow handlers
\* lines 18-21 and 252: the value of `AGENDAS[agenda]`, an own property (a
\* URL), a property inherited from Object.prototype, or undefined
AGENDAS == {"kineyfisio", "cesmed"}
ObjectPrototype ==
    {"constructor", "toString", "toLocaleString", "valueOf", "hasOwnProperty",
     "isPrototypeOf", "propertyIsEnumerable", "__proto__"}
Lookup(agenda) ==
    IF agenda \in AGENDAS THEN "url"
    ELSE IF agenda \in ObjectPrototype THEN "inherited"
    ELSE "undefined"

\* lines 239, 341, 476: `await browserInstance.newPage()`, outside try/finally
NewPage(w, ok) ==
    /\ w.pc = "newPage"
    /\ IF ok
       THEN Continue(w, [w EXCEPT !.pc = "goto", !.page = "open"])
       ELSE Settle(w, "throw", "newPage")
    /\ openPages' = IF ok THEN openPages \cup {w.id} ELSE openPages
    /\ UNCHANGED <<browser, requestCount, launchCount, closeCalls, CACHE, clock>>

\* lines 252, 354, 543: `await page.goto(AGENDAS[agenda], ...)`; it throws on
\* a navigation error and always when the argument is not a URL
Goto(w, ok) ==
    /\ w.pc = "goto"
    /\ (ok => Lookup(w.q.agenda) = "url")
    /\ Continue(w, IF ok
                   THEN [w EXCEPT !.pc = "reservar", !.obs = "loaded"]
                   ELSE [w EXCEPT !.pc = "close", !.outcome = "throw", !.cause = "goto"])
    /\ UNCHANGED <<browser, requestCount, launchCount, closeCalls, CACHE, clock, openPages>>

\* lines 254, 355, 544: `await clickButtonByText(page, 'reservar hora').catch(()=>{})`
ClickReservar(w, clicked) ==
    /\ w.pc = "reservar"
    /\ Continue(w, [w EXCEPT !.pc = "porEspecialidad",
                             !.obs = IF clicked THEN "clicked" ELSE "notFound"])
    /\ UNCHANGED <<browser, requestCount, launchCount, closeCalls, CACHE, clock, openPages>>

\* lines 256, 357, 546: `await clickButtonByText(page, 'por especialidad').catch(()=>{})`
ClickPorEspecialidad(w, clicked) ==
    /\ w.pc = "porEspecialidad"
    /\ Continue(w, [w EXCEPT !.pc = IF w.kind = "especialidades" THEN "extract"
                                    ELSE "especialidad",
                             !.obs = IF clicked THEN "clicked" ELSE "notFound"])
    /\ UNCHANGED <<browser, requestCount, launchCount, closeCalls, CACHE, clock, openPages>>

\* lines 361 and 375: the workflow goes on when either strategy clicked
EspecialidadSelectedAlways(clickedEspecialidad, tried) == TRUE

EspecialidadSelected(clickedEspecialidad, tried) == clickedEspecialidad \/ tried

\* lines 360-376, 549-565: clickElementInSelectorByText, then the full-DOM scan
SelectEspecialidad(w, clickedEspecialidad, tried) ==
    /\ w.pc = "especialidad"
    /\ (~clickedEspecialidad \/ tried)   \* `tried` is computed only after a miss
    /\ Continue(w,
         IF EspecialidadSelected(clickedEspecialidad, tried)
         THEN [w EXCEPT !.pc = IF w.kind = "horas" THEN "profesional" ELSE "extract",
                        !.obs = IF clickedEspecialidad THEN "clicked"
                                ELSE IF tried THEN "scanned" ELSE "notFound"]
         ELSE [w EXCEPT !.pc = "close", !.outcome = "soft", !.cause = "especialidad",
                        !.obs = "notFound"])
    /\ UNCHANGED <<browser, requestCount, launchCount, closeCalls, CACHE, clock, openPages>>

\* lines 569-600: click on an element whose text contains the practitioner,
\* else click on the first element of the page (`all[0]`)
SelectProfesional(w, clickedProfesional, fallback) ==
    /\ w.pc = "profesional"
    /\ (~clickedProfesional \/ fallback)
    /\ Continue(w,
         IF clickedProfesional \/ fallback
         THEN [w EXCEPT !.pc = "extract",
                        !.obs = IF clickedProfesional THEN "matched" ELSE "first"]
         ELSE [w EXCEPT !.pc = "close", !.outcome = "soft", !.cause = "profesional",
                        !.obs = "notFound"])
    /\ UNCHANGED <<browser, requestCount, launchCount, closeCalls, CACHE, clock, openPages>>

\* lines 303, 438, 733: setCache sits on the success path only
CacheAfterExtractAnyResult(cache, now, w, ok) ==
    setCache(cache, now, w.kind, CacheKey(w.q), TtlArg(w.kind),
             IF ok THEN ResponseObj(w.q) ELSE [success |-> FALSE, error |-> "extract"])

CacheAfterExtract(cache, now, w, ok) ==
    IF ok
    THEN setCache(cache, now, w.kind, CacheKey(w.q), TtlArg(w.kind), ResponseObj(w.q))
    ELSE cache

\* lines 260-304, 381-439, 604-734: extraction, `requestCount++`, setCache,
\* `return responseObj`; a DOM evaluation that throws skips all three
Extract(w, ok) ==
    /\ w.pc = "extract"
    /\ Continue(w, IF ok
                   THEN [w EXCEPT !.pc = "close", !.outcome = "ok", !.cause = "ok",
                                  !.obs = "extracted"]
                   ELSE [w EXCEPT !.pc = "close", !.outcome = "throw", !.cause = "extract",
                                  !.obs = "threw"])
    /\ requestCount' = IF ok THEN requestCount + 1 ELSE requestCount
    /\ CACHE' = CacheAfterExtract(CACHE, clock, w, ok)
    /\ UNCHANGED <<browser, launchCount, closeCalls, clock, openPages>>

\* lines 305, 440, 735: the finally block runs on every exit of the try block
FinallyClosesUnlessEarlyReturn(outcome) == outcome # "soft"

FinallyCloses(outcome) == TRUE

\* lines 305-307, 440-442, 735-737: `finally { try { await page.close() } catch {} }`,
\* after which the handler's promise settles and processQueue resumes;
\* page.close() rejects only when the page's target is already gone
ClosePage(w, closeOk) ==
    /\ w.pc = "close"
    /\ Settle(w, w.outcome, w.cause)
    /\ openPages' = IF FinallyCloses(w.outcome) THEN openPages \ {w.id} ELSE openPages
    /\ UNCHANGED <<browser, requestCount, launchCount, closeCalls, CACHE, clock>>

\* ------------------------------------------------------------ specification
\* lines 76-80
EmptyCache ==
    [especialidades |-> [ts |-> 0, ttl |-> TtlEspecialidades, data |-> NoData],
     profesionales |-> <<>>,
     horas |-> <<>>]

ServerInit ==
    /\ browser = NoBrowser
    /\ requestCount = 0
    /\ isProcessing = FALSE
    /\ requestQueue = <<>>
    /\ timers = <<>>
    /\ running = {}
    /\ nextId = 0
    /\ launchCount = 0
    /\ closeCalls = {}
    /\ startLog = <<>>
    /\ settleLog = <<>>
    /\ lastSettle = NoSettle
    /\ CACHE = EmptyCache
    /\ clock = 0
    /\ openPages = {}
    /\ lastResponse = NoResponse

Init ==
    /\ ServerInit
    /\ call = NoCall

\* a request arrives and reaches queueRequest (lines 234, 336, 471); any
\* sequence of such calls can occur, since requests that arrive before the
\* first scrape of their key has finished all miss the cache
Submit(maxJobs, maxQueue) ==
    \E q \in Queries :
        /\ nextId < maxJobs
        /\ Len(requestQueue) < maxQueue
        /\ QueueRequest(q)

\* the running handler resumes after an awaited operation
HandlerStep ==
    \/ \E w \in running : \E closeOk, launchOk \in BOOLEAN : GetBrowser(w, closeOk, launchOk)
    \/ \E w \in running : \E ok \in BOOLEAN : NewPage(w, ok)
    \/ \E w \in running : \E ok \in BOOLEAN : Goto(w, ok)
    \/ \E w \in running : \E clicked \in BOOLEAN : ClickReservar(w, clicked)
    \/ \E w \in running : \E clicked \in BOOLEAN : ClickPorEspecialidad(w, clicked)
    \/ \E w \in running : \E c, t \in BOOLEAN : SelectEspecialidad(w, c, t)
    \/ \E w \in running : \E c, f \in BOOLEAN : SelectProfesional(w, c, f)
    \/ \E w \in running : \E ok \in BOOLEAN : Extract(w, ok)
    \/ \E w \in running : \E closeOk \in BOOLEAN : ClosePage(w, closeOk)

Next ==
    \/ Submit(MaxJobs, MaxBacklog)
    \/ TimerFire
    \/ HandlerStep

Spec == Init /\ [][Next]_vars

NextLive ==
    \/ Submit(MaxLiveJobs, MaxQueue)
    \/ TimerFire
    \/ HandlerStep

\* every awaited operation of a dequeued handler completes and every
\* scheduled timer fires; nothing obliges a client to send a request
LiveSpec ==
    Init /\ [][NextLive]_vars /\ WF_vars(TimerFire) /\ WF_vars(HandlerStep)

\* ---------------------------------------------------------------- endpoints
\* the requests sent in ApiSpec: known agendas, a name every object inherits,
\* an unknown name, an absent agenda, and absent specialty / practitioner
ApiQueries ==
    { Query("especialidades", "kineyfisio", "", "", ""),
      Query("especialidades", "cesmed", "", "", ""),
      Query("especialidades", "toString", "", "", ""),
      Query("especialidades", "otra", "", "", ""),
      Query("profesionales", "kineyfisio", "KINESIOLOGIA", "", ""),
      Query("profesionales", "kineyfisio", "", "", ""),
      Query("horas", "kineyfisio", "KINESIOLOGIA", "NOMBRE", ""),
      Query("horas", "kineyfisio", "", "NOMBRE", ""),
      Query("horas", "kineyfisio", "KINESIOLOGIA", "", ""),
      Query("horas", "", "KINESIOLOGIA", "NOMBRE", "") }

\* lines 222, 321, 456: `!agenda || !AGENDAS[agenda]`
AgendaRejected(agenda) == agenda = "" \/ Lookup(agenda) = "undefined"

\* lines 324 and 459: `!especialidad`, `!especialidad || !profesional`
MissingParamsEspecialidadOnly(q) ==
    q.kind \in {"profesionales", "horas"} /\ q.especialidad = ""

MissingParams(q) ==
    \/ q.kind = "profesionales" /\ q.especialidad = ""
    \/ q.kind = "horas" /\ (q.especialidad = "" \/ q.profesional = "")

\* lines 223, 322, 325, 457, 460: `return res.status(400).json({success:false, error})`
BadRequest(q, error) ==
    [id |-> 0, via |-> "validation", status |-> 400,
     body |-> [success |-> FALSE, error |-> error]]

\* lines 228, 330, 465: `if (cached)`
ServesFromCacheNever(cached) == FALSE

ServesFromCache(cached) == cached # NoData

\* lines 230, 332, 467: `return res.json(cached)`
CachedResponse(q, cached) ==
    [id |-> 0, via |-> "cache", status |-> 200, body |-> cached]

\* lines 227, 329, 464: the endpoint's getCache call (no ttl argument)
Cached(q) == getCache(CACHE, clock, q.kind, CacheKey(q), 0)

\* lines 220-234, 319-336, 454-471: an endpoint callback up to its first await
Request(q, maxJobs, maxQueue) ==
    IF AgendaRejected(q.agenda)
    THEN /\ lastResponse' = BadRequest(q, "Agenda no valida")
         /\ UNCHANGED <<browser, requestCount, isProcessing, requestQueue, timers, running,
                        nextId, launchCount, closeCalls, startLog, settleLog, lastSettle,
                        CACHE, clock, openPages, call>>
    ELSE IF MissingParams(q)
    THEN /\ lastResponse' = BadRequest(q, IF q.kind = "horas"
                                          THEN "Especialidad y profesional son requeridos"
                                          ELSE "Especialidad es requerida")
         /\ UNCHANGED <<browser, requestCount, isProcessing, requestQueue, timers, running,
                        nextId, launchCount, closeCalls, startLog, settleLog, lastSettle,
                        CACHE, clock, openPages, call>>
    ELSE IF ServesFromCache(Cached(q))
    THEN /\ lastResponse' = CachedResponse(q, Cached(q))
         /\ UNCHANGED <<browser, requestCount, isProcessing, requestQueue, timers, running,
                        nextId, launchCount, closeCalls, startLog, settleLog, lastSettle,
                        CACHE, clock, openPages, call>>
    ELSE /\ nextId < maxJobs
         /\ Len(requestQueue) < maxQueue
         /\ QueueRequest(q)

\* line 82: Date.now() advances to the next instant at which an entry of the
\* cache expires; between two such instants every getCache call returns what
\* it returns at the earlier one
Tick ==
    /\ \E e \in Entries(CACHE) :
          /\ e.data # NoData
          /\ clock < e.ts + e.ttl
          /\ e.ts + e.ttl <= MaxClock
          /\ clock' = e.ts + e.ttl
    /\ UNCHANGED <<browser, requestCount, isProcessing, requestQueue, timers, running,
                   nextId, launchCount, closeCalls, startLog, settleLog, lastSettle,
                   CACHE, openPages, lastResponse, call>>

ApiNext ==
    \/ \E q \in ApiQueries : Request(q, MaxApiJobs, MaxBacklog)
    \/ Tick
    \/ TimerFire
    \/ HandlerStep

\* requests arrive at the endpoints while time passes
ApiSpec == Init /\ [][ApiNext]_vars

\* lines 454-468: requests to /api/horas that differ in req.query.fecha, or
\* whose especialidad and profesional contain the separator of the cache key
HorasQueries ==
    { Query("horas", "kineyfisio", "KINESIOLOGIA", "NOMBRE", ""),
      Query("horas", "kineyfisio", "KINESIOLOGIA", "NOMBRE", "2026-01-15"),
      Query("horas", "kineyfisio", "A|B", "C", ""),
      Query("horas", "kineyfisio", "A", "B|C", "") }

HorasNext ==
    \/ \E q \in HorasQueries : Request(q, MaxApiJobs, MaxBacklog)
    \/ Tick
    \/ TimerFire
    \/ HandlerStep

\* requests arrive at the slot endpoint while time passes
HorasSpec == Init /\ [][HorasNext]_vars

\* ------------------------------------------------------------ pure functions
\* the variables of the server, which a call of a pure function leaves alone
server == <<browser, requestCount, isProcessing, requestQueue, timers, running,
            nextId, launchCount, closeCalls, startLog, settleLog, lastSettle,
            CACHE, clock, openPages, lastResponse>>

\* the completion of a call: a returned value or a thrown exception
Return(x) == [throws |-> FALSE, value |-> x]
Throw == [throws |-> TRUE]
NoResult == [throws |-> FALSE, pending |-> TRUE]

\* a string is its sequence of characters.  The characters: the letter a in
\* lower and upper case, bare and precomposed with an acute accent (U+00E1,
\* U+00C1), the combining acute accent (U+0301), space and tab, and the
\* letters of "[object Object]"
Letters == {"a", "A", "a_acute", "A_acute"}
WhiteSpace == {"sp", "tab"}
Chars == Letters \cup {"acute"} \cup WhiteSpace

Strings(n) == UNION {[1..k -> Chars] : k \in 0..n}

\* JavaScript values passed to normalizeStringNode: null, undefined, strings,
\* and objects, whose conversion to a string may throw (Object.create(null),
\* or a toString that throws)
Null == [type |-> "null"]
Undefined == [type |-> "undefined"]
Str(cs) == [type |-> "string", chars |-> cs]
Obj(toStringThrows) == [type |-> "object", toStringThrows |-> toStringThrows]

\* line 28: `!s`
Falsy(s) == s.type \in {"null", "undefined"} \/ (s.type = "string" /\ s.chars = <<>>)

\* lines 30, 37: `String(s)`; an object becomes "[object Object]"
StringThrows(s) == s.type = "object" /\ s.toStringThrows
String(s) == IF s.type = "string" THEN s.chars ELSE <<"[", "o", "O", "]">>

\* line 31: `.normalize('NFD')`, canonical decomposition
Decompose(c) ==
    IF c = "a_acute" THEN <<"a", "acute">>
    ELSE IF c = "A_acute" THEN <<"A", "acute">>
    ELSE <<c>>

RECURSIVE NFD(_)
NFD(cs) == IF cs = <<>> THEN <<>> ELSE Decompose(Head(cs)) \o NFD(Tail(cs))

\* line 32: `.replace(/\p{Diacritic}/gu, '')`; the combining accent has the
\* property, a precomposed letter does not
IsDiacritic(c) == c = "acute"
StripDiacritics(cs) == SelectSeq(cs, LAMBDA c : ~IsDiacritic(c))

\* line 33: `.toLowerCase()`
LowerChar(c) ==
    IF c = "A" THEN "a"
    ELSE IF c = "A_acute" THEN "a_acute"
    ELSE IF c = "O" THEN "o"
    ELSE c
ToLowerCase(cs) == [i \in 1..Len(cs) |-> LowerChar(cs[i])]

\* line 34: `.trim()`
RECURSIVE TrimStart(_)
TrimStart(cs) ==
    IF cs # <<>> /\ Head(cs) \in WhiteSpace THEN TrimStart(Tail(cs)) ELSE cs
RECURSIVE TrimEnd(_)
TrimEnd(cs) ==
    IF cs # <<>> /\ cs[Len(cs)] \in WhiteSpace
    THEN TrimEnd(SubSeq(cs, 1, Len(cs) - 1)) ELSE cs
Trim(cs) == TrimEnd(TrimStart(cs))

\* line 35: `.replace(/\s+/g, ' ')`
RECURSIVE CollapseWhitespace(_)
CollapseWhitespace(cs) ==
    IF cs = <<>> THEN <<>>
    ELSE IF Head(cs) \in WhiteSpace
    THEN <<"sp">> \o CollapseWhitespace(TrimStart(Tail(cs)))
    ELSE <<Head(cs)>> \o CollapseWhitespace(Tail(cs))

\* lines 27-39 with the diacritics stripped after the whitespace was collapsed
normalizeStripLast(s) ==
    IF Falsy(s) THEN Return(<<>>)
    ELSE IF ~StringThrows(s)
    THEN Return(StripDiacritics(CollapseWhitespace(Trim(ToLowerCase(NFD(String(s)))))))
    ELSE IF StringThrows(s) THEN Throw ELSE Return(Trim(ToLowerCase(String(s))))

\* lines 27-39 without the decomposition of line 31
normalizeWithoutNFD(s) ==
    IF Falsy(s) THEN Return(<<>>)
    ELSE IF ~StringThrows(s)
    THEN Return(CollapseWhitespace(Trim(ToLowerCase(StripDiacritics(String(s))))))
    ELSE IF StringThrows(s) THEN Throw ELSE Return(Trim(ToLowerCase(String(s))))

\* lines 27-39: the try block throws only when String(s) does, and the catch
\* block then evaluates String(s) again
normalizeStringNode(s) ==
    IF Falsy(s) THEN Return(<<>>)
    ELSE IF ~StringThrows(s)
    THEN Return(CollapseWhitespace(Trim(ToLowerCase(StripDiacritics(NFD(String(s)))))))
    ELSE IF StringThrows(s) THEN Throw ELSE Return(Trim(ToLowerCase(String(s))))

\* the arguments normalizeStringNode is called with
NormalizeArgs ==
    {Null, Undefined, Obj(TRUE), Obj(FALSE)} \cup {Str(cs) : cs \in Strings(MaxLen)}

\* a call that has not been made yet
Pending(fn, arg) == [fn |-> fn, arg |-> arg, done |-> FALSE, ret |-> NoResult]

\* the call returns or throws
Finish(ret) ==
    /\ ~call.done
    /\ call' = [call EXCEPT !.done = TRUE, !.ret = ret]
    /\ UNCHANGED server

CallNormalizeStringNode ==
    /\ call.fn = "normalizeStringNode"
    /\ Finish(normalizeStringNode(call.arg))

\* ---- clickButtonByText
\* what the page does during one call: whether waitForXPath finds the element
\* in time, what page.$x returns, whether scrollIntoView and click go through,
\* and what the full-text scan in page.evaluate gives
ClickOutcomes ==
    [waitForXPath : BOOLEAN, xquery : {"el", "none", "throws"},
     scroll : BOOLEAN, click : BOOLEAN, evaluate : {"true", "false", "throws"}]

\* lines 136-145: the try block runs to its end without an exception
TryCompletes(o) ==
    /\ o.waitForXPath
    /\ o.xquery # "throws"
    /\ o.xquery = "el" => o.scroll /\ o.click

\* lines 135-162 without the inner try/catch around page.evaluate
clickButtonByTextBareFallback(o) ==
    IF TryCompletes(o)
    THEN Return(o.xquery = "el")
    ELSE IF o.evaluate = "throws" THEN Throw ELSE Return(o.evaluate = "true")

\* lines 135-162: an element found and clicked returns true, no element falls
\* through to `return false`; an exception in the try block runs the
\* full-text scan, whose own exception is swallowed
clickButtonByText(o) ==
    IF TryCompletes(o)
    THEN Return(o.xquery = "el")
    ELSE IF o.evaluate = "throws" THEN Return(FALSE) ELSE Return(o.evaluate = "true")

CallClickButtonByText ==
    /\ call.fn = "clickButtonByText"
    /\ Finish(clickButtonByText(call.arg))

\* ---- GET /api/horas: extraction of the slots
\* a rendered line is its sequence of white-space separated tokens
TimeTokens == {"09:00", "10:30"}
Keywords == {"DISPONIBLE", "OCUPADO", "RESERVADO"}

\* the lines of document.body.innerText, after trim and the removal of empty lines
HoraLines ==
    { <<"09:00", "DISPONIBLE">>, <<"09:00", "OCUPADO">>, <<"10:30", "OCUPADO">>,
      <<"10:30">>, <<"10:30", "RESERVADO">>, <<"ocupado", "09:00">>,
      <<"10:30", "-", "disponible">>, <<"x">> }

SeqsUpTo(S, n) == UNION {[1..k -> S] : k \in 0..n}

\* line 696: `.toUpperCase()`; the regex and the test of line 698 ignore case
UpperToken(t) ==
    CASE t = "disponible" -> "DISPONIBLE"
      [] t = "ocupado" -> "OCUPADO"
      [] t = "reservado" -> "RESERVADO"
      [] OTHER -> t

\* line 691: /(?:^|\s)(\d{1,2}:\d{2})(?:\s*[-–—]?\s*(DISPONIBLE|OCUPADO|RESERVADO)?)?/i
\* matches the first time token of the line, skips one dash, and captures the
\* keyword that comes next, if one does
FirstTime(line) ==
    IF \E i \in 1..Len(line) : line[i] \in TimeTokens
    THEN CHOOSE i \in 1..Len(line) :
            /\ line[i] \in TimeTokens
            /\ \A j \in 1..(i - 1) : line[j] \notin TimeTokens
    ELSE 0

Match(line) ==
    LET i == FirstTime(line)
        j == IF i + 1 <= Len(line) /\ line[i + 1] = "-" THEN i + 2 ELSE i + 1
    IN  IF i = 0 THEN [matched |-> FALSE]
        ELSE [matched |-> TRUE,
              m1 |-> line[i],
              m2 |-> IF j <= Len(line) /\ UpperToken(line[j]) \in Keywords
                     THEN line[j] ELSE ""]

\* line 698: /OCUPADO/i.test(line)
TestOcupado(line) == \E i \in 1..Len(line) : UpperToken(line[i]) = "OCUPADO"

\* line 697
Estado(estadoRaw) ==
    IF estadoRaw = "OCUPADO" THEN "OCUPADO"
    ELSE IF estadoRaw = "DISPONIBLE" THEN "DISPONIBLE"
    ELSE "DESCONOCIDO"

\* lines 694-699: the entry pushed for a line the regex matches
HoraEntry(line) ==
    LET m == Match(line)
        estado == Estado(UpperToken(m.m2))
    IN  [hora |-> m.m1,
         disponible |-> estado = "DISPONIBLE"
                        \/ (estado = "DESCONOCIDO" /\ ~TestOcupado(line)),
         estado |-> estado]

\* lines 692-701
RECURSIVE HorasData(_)
HorasData(lines) ==
    IF lines = <<>> THEN <<>>
    ELSE (IF Match(Head(lines)).matched THEN <<HoraEntry(Head(lines))>> ELSE <<>>)
         \o HorasData(Tail(lines))

\* line 704
HorasDisponibles(horas) ==
    LET avail == SelectSeq(horas, LAMBDA h : h.disponible)
    IN  [i \in 1..Len(avail) |-> [hora |-> avail[i].hora, estado |-> avail[i].estado]]

\* lines 705-712 without the `seen` set
UniqueKeepAll(hs, seen) == hs

\* lines 705-712: the first entry of each hora is kept
RECURSIVE Unique(_, _)
Unique(hs, seen) ==
    IF hs = <<>> THEN <<>>
    ELSE IF Head(hs).hora \in seen THEN Unique(Tail(hs), seen)
    ELSE <<Head(hs)>> \o Unique(Tail(hs), seen \cup {Head(hs).hora})

\* ---- GET /api/horas: the intercepted response
\* JSON values: null, numbers, strings (their white-space separated tokens, as
\* for the rendered lines), arrays and objects (their fields in insertion order)
Num == [type |-> "number"]
JArr(items) == [type |-> "array", items |-> items]
Field(k, v) == [k |-> k, v |-> v]
JObj(fields) == [type |-> "object", fields |-> fields]

\* `lastXHR`: null, or what page.on('response') stored last: whether the url
\* contains '/onlinebooking/application', the parsed body or null, the text or null
XHR(app, json, text) == [type |-> "lastXHR", app |-> app, json |-> json, text |-> text]
LastXHRs ==
    { Null,
      XHR(TRUE, JArr(<<Str(<<"10:30">>), Str(<<"09:00", "-", "10:30">>), Str(<<"10:30">>)>>), Null),
      XHR(TRUE, JObj(<<Field("data", JArr(<<JObj(<<Field("id", Num), Field("start", Str(<<"10:30">>)),
                                                  Field("hora", Str(<<"09:00">>))>>)>>))>>), Null),
      XHR(FALSE, JObj(<<Field("hora", Str(<<"09:00">>))>>), Null),
      XHR(FALSE, JArr(<<JObj(<<Field("slots", JArr(<<Str(<<"09:00">>)>>))>>), Str(<<"x">>)>>), Null),
      XHR(TRUE, JArr(<<Str(<<"09:00">>), Null>>), Null),
      XHR(TRUE, Null, Str(<<"09:00", "x", "09:00", "10:30">>)),
      XHR(FALSE, Null, Str(<<"09:00">>)),
      XHR(TRUE, Null, Str(<<"x">>)) }

\* line 631: the keys findTimesInObject looks up in an object of an array
TimeKeys == <<"time", "hora", "start", "slot", "hour", "available", "schedule",
              "timeSlot", "availableTime">>

\* lines 633, 639: `.match(/\d{1,2}:\d{2}/)`, the first time of a string if it has one
MatchTime(s) == IF FirstTime(s.chars) > 0 THEN <<s.chars[FirstTime(s.chars)]>> ELSE <<>>

\* lines 635-642: `item[k]` for each key, pushed when it is a string with a time;
\* `item[k]` of null throws
KeyTimes(item, i) ==
    IF item.type # "object" THEN <<>>
    ELSE LET hits == SelectSeq(item.fields, LAMBDA f : f.k = TimeKeys[i])
         IN  IF hits # <<>> /\ hits[Len(hits)].v.type = "string"
             THEN MatchTime(hits[Len(hits)].v) ELSE <<>>

RECURSIVE AllKeyTimes(_, _)
AllKeyTimes(item, i) ==
    IF i > Len(TimeKeys) THEN <<>> ELSE KeyTimes(item, i) \o AllKeyTimes(item, i + 1)

\* two steps in sequence pushing into `results`; an exception ends the traversal
Then(c1, c2) ==
    IF c1.throws \/ c2.throws THEN Throw ELSE Return(c1.value \o c2.value)

\* lines 626-649
RECURSIVE findTimesInObject(_)
RECURSIVE ForEachItem(_)
RECURSIVE ForEachValue(_)
findTimesInObject(o) ==
    IF o.type = "null" \/ (o.type = "string" /\ o.chars = <<>>) THEN Return(<<>>)
    ELSE IF o.type = "array" THEN ForEachItem(o.items)
    ELSE IF o.type = "object" THEN ForEachValue(o.fields)
    ELSE Return(<<>>)
ForEachItem(items) ==
    IF items = <<>> THEN Return(<<>>)
    ELSE LET item == Head(items)
             one == IF item.type = "string" THEN Return(MatchTime(item))
                    ELSE IF item.type = "null" THEN Throw
                    ELSE IF item.type \in {"object", "array"}
                    THEN Then(Return(AllKeyTimes(item, 1)), findTimesInObject(item))
                    ELSE Return(<<>>)
         IN  Then(one, ForEachItem(Tail(items)))
ForEachValue(fields) ==
    IF fields = <<>> THEN Return(<<>>)
    ELSE Then(findTimesInObject(Head(fields).v), ForEachValue(Tail(fields)))

\* lines 665-667: `Array.from(new Set(lastXHR.text.match(/\d{1,2}:\d{2}/g)))`
RECURSIVE Distinct(_, _)
Distinct(ts, seen) ==
    IF ts = <<>> THEN <<>>
    ELSE IF Head(ts) \in seen THEN Distinct(Tail(ts), seen)
    ELSE <<Head(ts)>> \o Distinct(Tail(ts), seen \cup {Head(ts)})

\* lines 651-672: `horasFromXHR`; an exception of findTimesInObject is caught
\* and leaves it empty
HorasFromXHR(lastXHR) ==
    IF lastXHR.type = "null" THEN <<>>
    ELSE IF lastXHR.json.type # "null"
    THEN (IF findTimesInObject(lastXHR.json).throws THEN <<>>
          ELSE findTimesInObject(lastXHR.json).value)
    ELSE IF ~Falsy(lastXHR.text) /\ lastXHR.app
    THEN Distinct(SelectSeq(lastXHR.text.chars, LAMBDA t : t \in TimeTokens), {})
    ELSE <<>>

\* lines 674-713 with the rendered text preferred to the intercepted times
UniqueHorasTextFirst(xhr, lines) ==
    IF Len(HorasDisponibles(HorasData(lines))) > 0
    THEN Unique(HorasDisponibles(HorasData(lines)), {})
    ELSE Unique([i \in 1..Len(xhr) |-> [hora |-> xhr[i], estado |-> "DESCONOCIDO"]], {})

\* lines 674-713: the intercepted times when there are some, else the rendered text
UniqueHoras(xhr, lines) ==
    IF Len(xhr) > 0
    THEN Unique([i \in 1..Len(xhr) |-> [hora |-> xhr[i], estado |-> "DESCONOCIDO"]], {})
    ELSE Unique(HorasDisponibles(HorasData(lines)), {})

\* lines 605-623 with the time-out of a wait propagating
WaitCaughtNever(arrived) == arrived

\* lines 605-623: each wait is in a try/catch that logs the time-out
WaitCaught(arrived) == TRUE

\* lines 604-731: what the handler's function returns once the practitioner
\* was selected
HorasResponse(a) ==
    IF ~(WaitCaught(a.waitForResponse) /\ WaitCaught(a.waitForFunction)) THEN Throw
    ELSE LET uniqueHoras == UniqueHoras(HorasFromXHR(a.lastXHR), a.lines)
         IN  Return([success |-> TRUE,
                     horas |-> [i \in 1..Len(uniqueHoras) |-> uniqueHoras[i].hora],
                     horas_objects |-> uniqueHoras,
                     total |-> Len(uniqueHoras)])

HorasArgs ==
    [waitForResponse : BOOLEAN, waitForFunction : BOOLEAN,
     lastXHR : LastXHRs, lines : SeqsUpTo(HoraLines, MaxLines)]

CallHorasResponse ==
    /\ call.fn = "horas"
    /\ Finish(HorasResponse(call.arg))

\* ---- GET /api/profesionales: extraction of the practitioners
\* a rendered line: free text, or the text that follows "Especialidad: ",
\* "Sucursal: " or "Seleccione "
Line(kind, text) == [kind |-> kind, text |-> text]
ProfLines ==
    { Line("text", <<"a", "a", "a", "a">>), Line("text", <<"A", "a", "a", "a">>),
      Line("text", <<"a_acute", "a", "a", "a">>), Line("text", <<"a", "a", "a">>),
      Line("especialidad", <<"a">>), Line("sucursal", <<"A">>),
      Line("seleccione", <<"a">>) }

\* `.length` of a line
LineLength(l) ==
    Len(l.text) + (CASE l.kind = "especialidad" -> 14
                     [] l.kind = "sucursal" -> 10
                     [] l.kind = "seleccione" -> 11
                     [] OTHER -> 0)

\* the elements matching '.profesional, .medico, .practitioner, .list-item,
\* .item': the length of their text and its first non-empty line
Element(length, first) == [length |-> length, first |-> first]
ProfElements ==
    { <<>>,
      << Element(4, Line("text", <<"a", "a", "a">>)) >>,
      << Element(6, Line("text", <<"a", "a", "a", "a">>)),
         Element(8, Line("text", <<"A", "a", "a", "a">>)),
         Element(6, Line("text", <<"a", "a", "a", "a">>)) >> }

\* the two revisions of the handler in the repository
Revisions == {"part_001", "server.js"}

\* line 388: /especialidad[:\s]/i.test(line)
IsEspecialidadLine(l) == l.kind = "especialidad"
\* line 390: nombre && nombre.length > 3 && !/especialidad|seleccione/i.test(nombre)
IsNombre(l) == LineLength(l) > 3 /\ l.kind \notin {"especialidad", "seleccione"}

\* part_001 line 391, server.js lines 817-822: the record pushed for the marker
\* line at index i
Pushed(rev, lines, i) ==
    IF rev = "part_001"
    THEN [nombre |-> lines[i - 1], value |-> lines[i - 1]]
    ELSE [nombre |-> lines[i - 1],
          especialidad |-> lines[i].text,
          sucursal |-> IF i + 1 <= Len(lines) /\ lines[i + 1].kind = "sucursal"
                       THEN lines[i + 1].text ELSE <<>>,
          value |-> lines[i - 1]]

\* lines 386-394
RECURSIVE FromLines(_, _, _)
FromLines(rev, lines, i) ==
    IF i > Len(lines) THEN <<>>
    ELSE (IF IsEspecialidadLine(lines[i]) /\ i > 1 /\ IsNombre(lines[i - 1])
          THEN <<Pushed(rev, lines, i)>> ELSE <<>>)
         \o FromLines(rev, lines, i + 1)

\* lines 396-403
RECURSIVE FromElements(_)
FromElements(els) ==
    IF els = <<>> THEN <<>>
    ELSE (IF Head(els).length > 5
          THEN <<[nombre |-> Head(els).first, value |-> Head(els).first]>> ELSE <<>>)
         \o FromElements(Tail(els))

\* lines 385-404
ProfesionalesData(rev, lines, els) ==
    IF FromLines(rev, lines, 1) # <<>> THEN FromLines(rev, lines, 1)
    ELSE FromElements(els)

\* line 408: (p.nombre || p.value || '').trim(); the lines are trimmed already
Key(p) == p.nombre

\* lines 405-413
RECURSIVE UniqueProfesionales(_, _)
UniqueProfesionales(ps, seen) ==
    IF ps = <<>> THEN <<>>
    ELSE IF Key(Head(ps)) \in seen THEN UniqueProfesionales(Tail(ps), seen)
    ELSE << [nombre |-> Key(Head(ps)), value |-> Key(Head(ps)),
             especialidad |-> IF "especialidad" \in DOMAIN Head(ps)
                              THEN Head(ps).especialidad ELSE <<>>] >>
         \o UniqueProfesionales(Tail(ps), seen \cup {Key(Head(ps))})

\* lines 381-441: what the handler's function returns once the specialty was
\* selected
ProfesionalesResponse(a) ==
    LET profesionales == UniqueProfesionales(ProfesionalesData(a.rev, a.lines, a.els), {})
    IN  Return([success |-> TRUE,
                total |-> Len(profesionales),
                profesionales |-> [i \in 1..Len(profesionales) |-> profesionales[i].nombre],
                profesionales_objects |-> profesionales])

ProfesionalesArgs ==
    [rev : Revisions, lines : SeqsUpTo(ProfLines, MaxProfLines), els : ProfElements]

CallProfesionalesResponse ==
    /\ call.fn = "profesionales"
    /\ Finish(ProfesionalesResponse(call.arg))

\* ---- GET /api/especialidades: extraction of the specialties
\* an element matching '.cellWidget, .especialidad, .service-item, .item': its
\* trimmed text, the length of that text, and its title attribute
Cell(text, length, title) == [text |-> text, length |-> length, title |-> title]
EspCells ==
    { Cell("Kinesiologia", 12, ""), Cell("Kine", 4, "Kinesiologia"), Cell("Cod", 3, "Codigo") }

\* a line of the rendered text: its length and whether it contains 'reservar'
\* or 'especialidad'
TextLine(text, length, menu) == [text |-> text, length |-> length, menu |-> menu]
EspLines ==
    { TextLine("Traumatologia", 13, FALSE), TextLine("Reservar hora", 13, TRUE),
      TextLine("Menu", 4, FALSE) }

\* lines 263-269
FromCells(cells) ==
    LET kept == SelectSeq(cells, LAMBDA c : c.length > 3)
    IN  [i \in 1..Len(kept) |->
            LET t == IF kept[i].title # "" THEN kept[i].title ELSE kept[i].text
            IN  [text |-> t, value |-> t]]

\* lines 271-277
FromBody(lines) ==
    LET kept == SelectSeq(lines, LAMBDA l : l.length > 4 /\ ~l.menu)
    IN  [i \in 1..Len(kept) |-> [text |-> kept[i].text, value |-> kept[i].text]]

\* lines 260-279
EspecialidadesData(cells, lines) ==
    IF Len(FromCells(cells)) = 0 THEN FromBody(lines) ELSE FromCells(cells)

\* lines 253-300: what the handler's function returns once the page was
\* loaded; the waits for the selectors have `.catch(()=>{})`
EspecialidadesResponse(a) ==
    IF ~(WaitCaught(a.waitForWidgets) /\ WaitCaught(a.waitForCells)) THEN Throw
    ELSE LET especialidades == EspecialidadesData(a.cells, a.lines)
         IN  Return([success |-> TRUE,
                     total |-> Len(especialidades),
                     especialidades |-> [i \in 1..Len(especialidades) |-> especialidades[i].text],
                     especialidades_objects |-> especialidades])

EspecialidadesArgs ==
    [waitForWidgets : BOOLEAN, waitForCells : BOOLEAN,
     cells : SeqsUpTo(EspCells, MaxElems), lines : SeqsUpTo(EspLines, MaxElems)]

CallEspecialidadesResponse ==
    /\ call.fn = "especialidades"
    /\ Finish(EspecialidadesResponse(call.arg))

\* ---- clickElementInSelectorByText
\* line 169: `n(s)`, the normalization done in the page, on a string
nInPage(cs) == CollapseWhitespace(Trim(ToLowerCase(StripDiacritics(NFD(cs)))))

\* `hay.includes(needle)`
Includes(hay, needle) ==
    \E i \in 0..(Len(hay) - Len(needle)) : SubSeq(hay, i + 1, i + Len(needle)) = needle

\* an element matching the selector: its title attribute ('' when it has none)
\* and its textContent
Candidate(title, txt) == [title |-> title, txt |-> txt]
Candidates ==
    { Candidate(<<>>, <<"A", "sp", "a">>), Candidate(<<>>, <<"a_acute">>),
      Candidate(<<"A">>, <<"sp">>), Candidate(<<"a", "a">>, <<"a", "a">>) }

\* the `text` parameter: a specialty of the request
Targets == { Str(<<"a">>), Str(<<"sp">>), Str(<<"A", "tab", "sp", "a">>), Obj(TRUE) }

\* lines 172-174: the predicate of `elements.find`
Matches(el, tNorm) ==
    nInPage(el.title) = tNorm \/ nInPage(el.txt) = tNorm \/ Includes(nInPage(el.txt), tNorm)

\* lines 171-175: the index of the first element the predicate accepts, 0 when
\* there is none
Target(elements, tNorm) ==
    IF \E i \in 1..Len(elements) : Matches(elements[i], tNorm)
    THEN CHOOSE i \in 1..Len(elements) :
            /\ Matches(elements[i], tNorm)
            /\ \A j \in 1..(i - 1) : ~Matches(elements[j], tNorm)
    ELSE 0

\* lines 164-187: the value returned and the element clicked (0: none); an
\* exception of normalizeStringNode or of waitForSelector is caught
clickElementInSelectorByText(a) ==
    IF normalizeStringNode(a.text).throws \/ ~a.waitForSelector
    THEN [throws |-> FALSE, value |-> FALSE, target |-> 0]
    ELSE LET target == Target(a.elements, normalizeStringNode(a.text).value)
         IN  [throws |-> FALSE, value |-> target > 0, target |-> target]

ClickElementArgs ==
    [text : Targets, waitForSelector : BOOLEAN, elements : SeqsUpTo(Candidates, MaxCands)]

CallClickElementInSelectorByText ==
    /\ call.fn = "clickElementInSelectorByText"
    /\ Finish(clickElementInSelectorByText(call.arg))

\* the call of the behaviour, on an argument of the bounded sets
PureCall ==
    \/ \E s \in NormalizeArgs : call = Pending("normalizeStringNode", s)
    \/ \E o \in ClickOutcomes : call = Pending("clickButtonByText", o)
    \/ \E a \in HorasArgs : call = Pending("horas", a)
    \/ \E a \in ProfesionalesArgs : call = Pending("profesionales", a)
    \/ \E a \in EspecialidadesArgs : call = Pending("especialidades", a)
    \/ \E a \in ClickElementArgs : call = Pending("clickElementInSelectorByText", a)

PureInit ==
    /\ ServerInit
    /\ PureCall

PureNext ==
    \/ CallNormalizeStringNode
    \/ CallClickButtonByText
    \/ CallHorasResponse
    \/ CallProfesionalesResponse
    \/ CallEspecialidadesResponse
    \/ CallClickElementInSelectorByText

\* one call of a pure function of the program, on any argument of the bounded sets
PureSpec == PureInit /\ [][PureNext]_vars

\* ------------------------------------------- the earlier queued revision
\* src/unnamed/part_000 line 58: `requestCount > 10`
LegacyThreshold == 10

\* part_000 line 58: `if (browser && requestCount > 10)`
LegacyNeedsRecycle(b, n) == b # NoBrowser /\ n > LegacyThreshold

\* part_000 lines 56-93 and 97-99: processQueue starts a handler, whose first
\* statement awaits getBrowser(); a failed launch ends the handler
LegacyGetBrowser(closeOk, launchOk) ==
    LET r == IF LegacyNeedsRecycle(browser, requestCount)
             THEN Recycle(browser, requestCount, closeOk)
             ELSE [browser |-> browser, requestCount |-> requestCount, closed |-> {}]
        launches == r.browser = NoBrowser
    IN
    /\ ~isProcessing
    /\ nextId < MaxLegacyJobs
    /\ (launches \/ launchOk)
    /\ (r.closed # {} \/ closeOk)
    /\ nextId' = nextId + 1
    /\ browser' = IF launches THEN Launch(r.browser, launchCount + 1, launchOk) ELSE r.browser
    /\ requestCount' = r.requestCount
    /\ closeCalls' = closeCalls \cup r.closed
    /\ launchCount' = IF launches /\ launchOk THEN launchCount + 1 ELSE launchCount
    /\ isProcessing' = ~(launches /\ ~launchOk)
    /\ UNCHANGED <<requestQueue, timers, running, startLog, settleLog, lastSettle,
                   CACHE, clock, openPages, lastResponse, call>>

\* part_000 lines 208, 335, 478 and 107-108: the workflow ends, with
\* `requestCount++` when it reached its extraction
LegacyComplete(ok) ==
    /\ isProcessing
    /\ requestCount' = IF ok THEN requestCount + 1 ELSE requestCount
    /\ isProcessing' = FALSE
    /\ UNCHANGED <<browser, requestQueue, timers, running, nextId, launchCount,
                   closeCalls, startLog, settleLog, lastSettle, CACHE, clock,
                   openPages, lastResponse, call>>

LegacyNext ==
    \/ \E closeOk, launchOk \in BOOLEAN : LegacyGetBrowser(closeOk, launchOk)
    \/ \E ok \in BOOLEAN : LegacyComplete(ok)

\* the browser and the counter of the earlier revision, one workflow at a time
LegacySpec == Init /\ [][LegacyNext]_vars

TypeOK ==
    /\ browser \in 0..launchCount
    /\ requestCount \in Nat
    /\ isProcessing \in BOOLEAN
    /\ nextId \in Nat
    /\ Len(requestQueue) <= MaxQueue
    /\ clock \in 0..MaxClock
    /\ openPages \subseteq 1..nextId
    /\ lastResponse.status \in {0, 200, 400, 500}

\* ------------------------------------------------------------------ claims
\* the step in which some handler's getBrowser call completes
GetBrowserStep == \E w \in running : w.pc = "getBrowser" /\ w \notin running'

\* the handle getBrowser returned in this step, NoBrowser if it threw
Returned == IF \E w \in running' : w.pc = "newPage"
            THEN (CHOOSE w \in running' : w.pc = "newPage").handle
            ELSE NoBrowser

\* the step in which a job's promise settles / in which a handler starts
SettleStep == Len(settleLog') = Len(settleLog) + 1
StartStep == Len(startLog') = Len(startLog) + 1

\* C1: at most one submitted handler is executing (dequeued and not yet
\* settled) at any instant, and the processing flag is set exactly then.
C1_AtMostOneHandler ==
    /\ Cardinality(running) <= 1
    /\ isProcessing <=> running # {}

\* a handler is executing while another job waits and a cooldown timer of an
\* earlier settlement is still pending
C1_Witness ==
    /\ Cardinality(running) = 1
    /\ Len(requestQueue) > 0
    /\ timers # <<>>

\* C2: handlers start and settle in submission order (ids are assigned in
\* submission order), and while a job's handler runs every job submitted
\* before it has settled.
C2_Fifo ==
    /\ \A i \in 1..Len(startLog) : startLog[i] = i
    /\ \A i \in 1..Len(settleLog) : settleLog[i] = i
    /\ \A w \in running : \A j \in 1..(w.id - 1) : j \in Range(settleLog)

\* a job has settled, the next one runs and two more wait in the queue
C2_Witness ==
    /\ Len(settleLog) >= 1
    /\ running # {}
    /\ Len(requestQueue) = 2

\* C3 (as stated): a handler starts only when the cooldown timer scheduled by
\* the most recent settlement has fired, whatever the arrival pattern.
C3_CooldownBeforeNextStart ==
    [][(StartStep /\ settleLog # <<>>) => lastSettle.id \notin Range(timers')]_vars

\* C4: a settlement settles exactly the job whose handler finished, rejected
\* exactly when that handler threw; a rejection releases the processing
\* flag and leaves the waiting jobs and their positions untouched.
C4_ThrowRejectsOnlyThatJob ==
    [][SettleStep =>
        \E w \in running :
            /\ running' = running \ {w}
            /\ settleLog' = Append(settleLog, w.id)
            /\ lastSettle'.id = w.id
            /\ (lastSettle'.promise = "rejected") <=>
                   (w.outcome = "throw" \/ w.pc \in {"getBrowser", "newPage"})
            /\ (lastSettle'.promise = "resolved") <=> (w.outcome \in {"ok", "soft"})
            /\ lastSettle'.promise = "rejected" =>
                   /\ isProcessing' = FALSE
                   /\ requestQueue' = requestQueue]_vars

\* a job was just rejected, the flag is released and two jobs still wait
C4_Witness ==
    /\ lastSettle.promise = "rejected"
    /\ isProcessing = FALSE
    /\ Len(requestQueue) = 2

\* C5: under LiveSpec's fairness every submitted job is eventually settled.
C5_EveryJobSettles ==
    \A j \in 1..MaxLiveJobs : (nextId >= j) ~> (j \in Range(settleLog))

\* a job that was submitted after a rejected job has itself been settled and
\* nothing is left to do
C5_Witness ==
    /\ Len(settleLog) >= 3
    /\ requestQueue = <<>>
    /\ running = {}
    /\ lastSettle.promise = "resolved"

\* C6: a getBrowser call made with a live handle and the counter at the
\* threshold calls close on the old handle, resets the counter, launches, and
\* never returns the old handle: it returns the newly launched one (or throws
\* the launch error, leaving the handle unset); this does not depend on
\* whether close succeeded.
C6_RecycleAtThreshold ==
    [][(GetBrowserStep /\ browser # NoBrowser /\ requestCount >= RecycleThreshold) =>
        /\ \E c \in closeCalls' \ closeCalls : c.handle = browser
        /\ requestCount' = 0
        /\ browser' # browser
        /\ Returned = browser'
        /\ \/ /\ browser' = launchCount + 1
              /\ launchCount' = launchCount + 1
           \/ /\ browser' = NoBrowser
              /\ SettleStep
              /\ lastSettle'.cause = "launch"]_vars

\* a recycle whose close call failed was followed by a successful relaunch
C6_Witness ==
    /\ \E c \in closeCalls : ~c.ok /\ browser > c.handle
    /\ requestCount = 0
    /\ \E w \in running : w.pc = "newPage" /\ w.handle = browser

\* C7: with a live handle and the counter below the threshold, getBrowser
\* returns that handle, launches nothing, closes nothing and leaves handle
\* and counter unchanged.
C7_IdempotentBelowThreshold ==
    [][(GetBrowserStep /\ browser # NoBrowser /\ requestCount < RecycleThreshold) =>
        /\ Returned = browser
        /\ browser' = browser
        /\ requestCount' = requestCount
        /\ launchCount' = launchCount
        /\ closeCalls' = closeCalls
        /\ ~SettleStep]_vars

\* a later workflow was handed the handle launched for the first one
C7_Witness ==
    /\ \E w \in running : w.pc = "newPage" /\ w.id > 1 /\ w.handle = browser
    /\ requestCount \in 1..(RecycleThreshold - 1)
    /\ launchCount = 1
    /\ closeCalls = {}

\* C8: a getBrowser call with no handle attempts a launch; a failed launch
\* rejects the job that called it and leaves the handle unset, and the
\* handle stays unset until a later getBrowser call launches.
C8_LaunchFailureKeepsHandleUnset ==
    [][/\ (GetBrowserStep /\ SettleStep) =>
             /\ lastSettle'.promise = "rejected"
             /\ lastSettle'.cause = "launch"
             /\ browser' = NoBrowser
       /\ (GetBrowserStep /\ browser = NoBrowser /\ ~SettleStep) =>
             /\ browser' = launchCount + 1
             /\ launchCount' = launchCount + 1
             /\ Returned = browser'
       /\ (~GetBrowserStep /\ browser = NoBrowser) => browser' = NoBrowser]_vars

\* the launch that followed a recycle close failed
C8_Witness ==
    /\ lastSettle.cause = "launch"
    /\ lastSettle.promise = "rejected"
    /\ closeCalls # {}
    /\ browser = NoBrowser

\* C9 (as stated): the getBrowser call of the workflow that follows one that
\* failed at page creation or navigation does not hand out the handle that
\* workflow used.
C9_HandleResetAfterAutomationError ==
    [][(GetBrowserStep /\ lastSettle.cause \in {"newPage", "goto"}) =>
        browser' # browser]_vars

\* C10 (as stated): the counter goes up by one in the step in which a handler
\* returns a result (success or structured failure), and otherwise changes
\* only by the reset at recycle.
C10_CounterCountsCompletedWorkflows ==
    [][LET returns == \E w \in running : \E v \in running' :
                          /\ v.id = w.id
                          /\ w.outcome = "none"
                          /\ v.outcome \in {"ok", "soft"}
       IN /\ returns => requestCount' = requestCount + 1
          /\ ~returns =>
                \/ requestCount' = requestCount
                \/ /\ requestCount' = 0
                   /\ GetBrowserStep
                   /\ requestCount >= RecycleThreshold]_vars

\* the variables an endpoint that answers from validation or from the cache
\* must leave alone: everything but the response it sends
sharedState == <<browser, requestCount, isProcessing, requestQueue, timers, running,
                 nextId, launchCount, closeCalls, startLog, settleLog, lastSettle,
                 CACHE, clock, openPages, call>>

\* a step in which an endpoint sends a response or enqueues a job
EndpointStep == lastResponse' # lastResponse \/ nextId' # nextId

\* C11 (as stated): a request whose agenda is not one of the configured keys
\* (any other string, a property name every object inherits, or none) is
\* answered with 400 and changes nothing: no enqueue, no launch, no page.
C11_UnknownAgendaRejected ==
    [][EndpointStep => \A q \in ApiQueries :
          (q.agenda \notin AGENDAS /\ Request(q, MaxApiJobs, MaxBacklog)) =>
              /\ lastResponse'.status = 400
              /\ lastResponse'.via = "validation"
              /\ UNCHANGED sharedState]_vars

\* C12: a practitioner request without a specialty and a slot request
\* without a specialty or without a practitioner are answered with 400 by the
\* endpoint itself; queue, flag, handle, counter and cache stay as they were.
C12_MissingParamsRejected ==
    [][EndpointStep => \A q \in ApiQueries :
          (/\ \/ q.kind = "profesionales" /\ q.especialidad = ""
              \/ q.kind = "horas" /\ q.especialidad = ""
              \/ q.kind = "horas" /\ q.profesional = ""
           /\ Request(q, MaxApiJobs, MaxBacklog)) =>
              /\ lastResponse'.status = 400
              /\ lastResponse'.via = "validation"
              /\ lastResponse'.body.success = FALSE
              /\ UNCHANGED sharedState]_vars

\* a slot request lacking a parameter was rejected while a scrape was running
\* and the cache already held an entry
C12_Witness ==
    /\ lastResponse.via = "validation"
    /\ lastResponse.body.error = "Especialidad y profesional son requeridos"
    /\ running # {}
    /\ CACHE # EmptyCache

\* the raw cache entry a request reads: the single especialidades entry, or
\* the entry stored under the request's key
NoEntry == [ts |-> 0, ttl |-> 0, data |-> NoData]
Entry(cache, q) ==
    IF q.kind = "especialidades" THEN cache.especialidades
    ELSE IF CacheKey(q) \in DOMAIN cache[q.kind] THEN cache[q.kind][CacheKey(q)]
    ELSE NoEntry

\* the entry holds a payload and less than its TTL has elapsed
Fresh(e, now) == e.data # NoData /\ now - e.ts < e.ttl

\* a request that passes validation
Valid(q) == ~AgendaRejected(q.agenda) /\ ~MissingParams(q)

\* the step in which the handler w returns its scraped result
Scraped(w) ==
    /\ w.pc = "extract"
    /\ \E v \in running' : v.id = w.id /\ v.outcome = "ok"

\* C13: a successful scrape stores its payload with the time of the write and
\* the TTL of its type (5 min, 5 min, 60 s); a later request for the same type
\* and key is answered with exactly that payload while less than the TTL has
\* elapsed, and once the TTL has elapsed it misses and is enqueued for a
\* fresh scrape.
C13_CacheRoundTripWithinTtl ==
    [][/\ \A w \in running : Scraped(w) =>
              Entry(CACHE', w.q) =
                  [ts |-> clock,
                   ttl |-> IF w.kind = "horas" THEN TtlHoras
                           ELSE IF w.kind = "profesionales" THEN TtlProfesionales
                           ELSE TtlEspecialidades,
                   data |-> ResponseObj(w.q)]
       /\ EndpointStep => \A q \in ApiQueries :
              (Valid(q) /\ Request(q, MaxApiJobs, MaxBacklog)) =>
              IF Fresh(Entry(CACHE, q), clock)
              THEN /\ lastResponse'.via = "cache"
                   /\ lastResponse'.status = 200
                   /\ lastResponse'.body = Entry(CACHE, q).data
                   /\ nextId' = nextId
              ELSE /\ nextId' = nextId + 1
                   /\ lastResponse' = lastResponse
                   /\ \/ \E w \in running' : w.id = nextId' /\ w.q = q
                      \/ /\ requestQueue' # <<>>
                         /\ requestQueue'[Len(requestQueue')].q = q]_vars

\* a request was served from the cache, the entry then expired, and the next
\* request for the same key is being scraped again
C13_Witness ==
    /\ lastResponse.via = "cache"
    /\ \E w \in running :
          /\ Entry(CACHE, w.q).data = ResponseObj(w.q)
          /\ lastResponse.body = ResponseObj(w.q)
          /\ clock - Entry(CACHE, w.q).ts >= Entry(CACHE, w.q).ttl

\* the jobs whose handler starts in this step
Started == {v \in running' : \A w \in running : w.id # v.id}

\* C14: a request whose entry is fresh is answered in the endpoint callback
\* itself and leaves queue, flag, handle, counter and cache as they were; a
\* handler only ever starts as a job taken from the queue (one that waited
\* there or the one queueRequest has just pushed), and a response that
\* carries a scrape result is the result of a handler that ran as such a job.
C14_HitBypassesQueueMissGoesThroughIt ==
    [][/\ EndpointStep => \A q \in ApiQueries :
              (Valid(q) /\ Fresh(Entry(CACHE, q), clock)
                        /\ Request(q, MaxApiJobs, MaxBacklog)) =>
                  /\ lastResponse'.via = "cache"
                  /\ UNCHANGED sharedState
       /\ \A v \in Started :
              /\ v.pc = "getBrowser"
              /\ \/ \E i \in 1..Len(requestQueue) : requestQueue[i].id = v.id
                 \/ v.id = nextId + 1 /\ nextId' = nextId + 1
              /\ v.id \notin Range(startLog)
       /\ (lastResponse' # lastResponse /\ lastResponse'.via = "queue") =>
              \E w \in running : w.id = lastResponse'.id /\ w.id \in Range(startLog)]_vars

\* a request was answered from the cache while another job's handler was
\* running on the browser the first scrape had launched
C14_Witness ==
    /\ lastResponse.via = "cache"
    /\ lastResponse.status = 200
    /\ isProcessing
    /\ running # {}
    /\ browser # NoBrowser
    /\ requestCount = 1

\* the step in which the handler w ends in a structured failure or a throw
Failed(w) ==
    /\ w.outcome = "none"
    /\ \/ \E v \in running' : v.id = w.id /\ v.outcome \in {"soft", "throw"}
       \/ w \notin running' /\ \A v \in running' : v.id # w.id

\* C15: no failure is ever cached: every payload the cache holds has
\* success = true, the cache is written only in the step in which a handler
\* returns its scraped result, and a handler that ends in a structured
\* failure or an exception leaves the cache as it was.
C15_OnlySuccessIsCached ==
    [][/\ \A e \in Entries(CACHE') : e.data # NoData => e.data.success = TRUE
       /\ CACHE' # CACHE => \E w \in running : Scraped(w)
       /\ \A w \in running : Failed(w) => CACHE' = CACHE]_vars

\* with a scraped list in the cache, one later workflow ended in the
\* structured specialty failure and the next one threw
C15_Witness ==
    /\ CACHE.especialidades.data # NoData
    /\ lastSettle.cause = "especialidad"
    /\ \E w \in running : w.outcome = "throw"

\* C16 (as stated): a specialties response served from the cache to a request
\* for source key K was produced by a scrape of source K, so a request for the
\* other known source within the TTL is not answered with the first source's
\* payload.
C16_CachedSpecialtiesAreOfTheRequestedSource ==
    [][EndpointStep => \A q \in ApiQueries :
          (/\ q.kind = "especialidades"
           /\ q.agenda \in AGENDAS
           /\ Request(q, MaxApiJobs, MaxBacklog)
           /\ lastResponse'.via = "cache") =>
              lastResponse'.body.agenda = q.agenda]_vars

\* the step in which the job of handler w settles
Settles(w) == SettleStep /\ lastSettle'.id = w.id

\* C17: a workflow that ends in a soft failure resolves its job with the
\* payload {success:false, error} and the endpoint sends that payload as a
\* normal (200) response; a workflow that ends in an infrastructure failure
\* (launch, page creation or navigation throwing) rejects its job and the
\* endpoint answers 500 with success:false.
C17_SoftFailureResolvesInfraFailureRejects ==
    [][\A w \in running : Settles(w) =>
          /\ w.outcome = "soft" =>
                /\ lastSettle'.promise = "resolved"
                /\ lastResponse' =
                      [id |-> w.id, via |-> "queue", status |-> 200,
                       body |-> [success |-> FALSE,
                                 error |-> IF w.cause = "especialidad"
                                           THEN "No se pudo seleccionar la especialidad"
                                           ELSE "No se pudo seleccionar el profesional"]]
          /\ (w.pc \in {"getBrowser", "newPage"} \/ w.cause = "goto") =>
                /\ lastSettle'.promise = "rejected"
                /\ lastSettle'.cause \in {"launch", "newPage", "goto"}
                /\ lastResponse'.id = w.id
                /\ lastResponse'.via = "queue"
                /\ lastResponse'.status = 500
                /\ lastResponse'.body.success = FALSE]_vars

\* the endpoint has returned a structured specialty failure as a normal
\* response and the next workflow has failed at navigation
C17_Witness ==
    /\ lastResponse.status = 200
    /\ lastResponse.body = SoftFailure("especialidad")
    /\ lastSettle.promise = "resolved"
    /\ \E w \in running : w.cause = "goto" /\ w.outcome = "throw"

\* C18 (as stated): in the slot workflow a practitioner-selection step that
\* finds no element matching the requested practitioner ends the workflow in
\* the structured failure 'No se pudo seleccionar el profesional', and the
\* workflow returns success only after a matching element was clicked.
C18_NoPractitionerMatchIsAFailure ==
    [][\A w \in running :
          /\ (w.pc = "profesional" /\ w \notin running') =>
                \E v \in running' :
                    /\ v.id = w.id
                    /\ \/ v.obs = "matched"
                       \/ v.outcome = "soft" /\ v.cause = "profesional"
          /\ (w.kind = "horas" /\ Scraped(w)) => w.obs = "matched"]_vars

\* the steps of the practitioner and slot workflows in their fixed order
StepOrder(kind) ==
    IF kind = "horas"
    THEN <<"goto", "reservar", "porEspecialidad", "especialidad", "profesional", "extract">>
    ELSE <<"goto", "reservar", "porEspecialidad", "especialidad", "extract">>

\* C19: the practitioner and slot workflows run their steps in the order
\* navigate, open entry point, choose by-specialty mode, select specialty,
\* (select practitioner), extract, each step leading to the next one or to the
\* end of the workflow; the two entry-point clicks lead to the next step also
\* when their target was not found; when neither specialty strategy finds the
\* specialty the workflow goes straight to its end and returns the structured
\* failure (resolved, not thrown), with no later step, no counter increment
\* and no cache write.
C19_FixedStepOrderAndSpecialtyFailure ==
    [][\A w \in running : w.kind \in {"profesionales", "horas"} =>
          /\ \A v \in running' : (v.id = w.id /\ v # w) =>
                /\ \/ \E i \in 1..Len(StepOrder(w.kind)) :
                         /\ w.pc = (IF i = 1 THEN "newPage" ELSE StepOrder(w.kind)[i - 1])
                         /\ v.pc \in {StepOrder(w.kind)[i], "close"}
                   \/ w.pc = "getBrowser" /\ v.pc = "newPage"
                   \/ w.pc = "extract" /\ v.pc = "close"
                /\ w.pc \in {"reservar", "porEspecialidad"} => v.pc # "close"
                /\ (w.pc = "especialidad" /\ v.obs = "notFound") =>
                      /\ v.pc = "close"
                      /\ v.outcome = "soft"
                      /\ v.cause = "especialidad"
                      /\ requestCount' = requestCount
                      /\ CACHE' = CACHE
                /\ (w.pc = "especialidad" /\ v.obs # "notFound") => v.pc # "close"
          /\ (Settles(w) /\ w.cause = "especialidad") =>
                /\ w.pc = "close"
                /\ lastSettle'.promise = "resolved"
                /\ lastResponse'.body =
                      [success |-> FALSE, error |-> "No se pudo seleccionar la especialidad"]
                /\ requestCount' = requestCount
                /\ CACHE' = CACHE]_vars

\* a workflow has ended in the specialty failure, and the slot workflow after
\* it has reached the specialty step although its by-specialty click found
\* nothing
C19_Witness ==
    /\ lastSettle.cause = "especialidad"
    /\ lastResponse.body = SoftFailure("especialidad")
    /\ \E w \in running : w.kind = "horas" /\ w.pc = "especialidad" /\ w.obs = "notFound"

\* C20: close has been called on the page of every job that has settled,
\* whichever way its workflow ended; an open page belongs to the one running
\* workflow that created it and that workflow uses no other page; so at most
\* one page is open at any instant.
C20_PagesClosedBeforeSettle ==
    /\ Cardinality(openPages) <= 1
    /\ \A p \in openPages :
          /\ p \notin Range(settleLog)
          /\ \E w \in running : w.id = p /\ w.page = "open"
    /\ \A w \in running : w.page = "open" => openPages = {w.id}

\* a workflow holds its own open page after one workflow succeeded, one ended
\* in a structured failure or an exception, and the latest one threw after
\* its page had been created
C20_Witness ==
    /\ openPages = {nextId}
    /\ nextId >= 4
    /\ Len(settleLog) = nextId - 1
    /\ requestCount \in 1..(nextId - 2)
    /\ lastSettle.cause = "extract"

\* ---- claims about normalizeStringNode
Normalized == call.fn = "normalizeStringNode" /\ call.done
NormalizedString == Normalized /\ call.arg.type = "string"

\* C26: normalizeStringNode is idempotent: for every non-empty string,
\* normalizing the normalized string returns it unchanged.
C26_NormalizeIdempotent ==
    (NormalizedString /\ call.arg.chars # <<>>) =>
        /\ ~call.ret.throws
        /\ normalizeStringNode(Str(call.ret.value)) = call.ret

C26_Witness ==
    /\ NormalizedString
    /\ call.arg.chars = <<"A_acute", "sp", "tab", "a">>
    /\ call.ret = Return(<<"a", "sp", "a">>)

\* strings that differ from cs in the case of one letter, in the accent of one
\* letter (precomposed or combining), in one more white-space character at
\* either end, or in one more character in a white-space run
SwapCase(c) ==
    CASE c = "a" -> "A" [] c = "A" -> "a"
      [] c = "a_acute" -> "A_acute" [] c = "A_acute" -> "a_acute"
      [] OTHER -> c
SwapAccent(c) ==
    CASE c = "a" -> "a_acute" [] c = "a_acute" -> "a"
      [] c = "A" -> "A_acute" [] c = "A_acute" -> "A"
      [] OTHER -> c
ReplaceAt(cs, i, c) == [cs EXCEPT ![i] = c]
InsertAt(cs, i, c) == SubSeq(cs, 1, i - 1) \o <<c>> \o SubSeq(cs, i, Len(cs))
Variants(cs) ==
    {ReplaceAt(cs, i, SwapCase(cs[i])) : i \in 1..Len(cs)}
    \cup {ReplaceAt(cs, i, SwapAccent(cs[i])) : i \in 1..Len(cs)}
    \cup {InsertAt(cs, i + 1, "acute") : i \in {j \in 1..Len(cs) : cs[j] \in {"a", "A"}}}
    \cup {<<w>> \o cs : w \in WhiteSpace}
    \cup {cs \o <<w>> : w \in WhiteSpace}
    \cup {InsertAt(cs, i, w) : i \in {j \in 1..Len(cs) : cs[j] \in WhiteSpace},
                               w \in WhiteSpace}

\* C27: strings that differ only in case, diacritics, leading or trailing
\* white space or the length of an internal white-space run normalize to the
\* same string, and that string has no upper-case letter, no diacritic, no
\* white space at either end and no two consecutive white-space characters.
C27_NormalizeCanonical ==
    NormalizedString =>
        /\ ~call.ret.throws
        /\ \A t \in Variants(call.arg.chars) : normalizeStringNode(Str(t)) = call.ret
        /\ LET out == call.ret.value IN
            /\ \A i \in 1..Len(out) : out[i] \notin {"A", "A_acute", "a_acute", "acute"}
            /\ out # <<>> => out[1] \notin WhiteSpace /\ out[Len(out)] \notin WhiteSpace
            /\ \A i \in 1..(Len(out) - 1) :
                   ~(out[i] \in WhiteSpace /\ out[i + 1] \in WhiteSpace)

C27_Witness ==
    /\ NormalizedString
    /\ call.arg.chars = <<"sp", "A", "A_acute", "tab">>
    /\ call.ret = Return(<<"a", "a">>)

Clicked == call.fn = "clickButtonByText" /\ call.done
XPathClick(o) == o.waitForXPath /\ o.xquery = "el" /\ o.scroll /\ o.click
FallbackClick(o) == ~TryCompletes(o) /\ o.evaluate = "true"

\* C29: clickButtonByText never throws and returns a boolean whatever the page
\* does: true exactly when the click was performed by the XPath strategy or by
\* the full-text-scan fallback, false otherwise.
C29_ClickButtonByTextTotal ==
    Clicked =>
        /\ ~call.ret.throws
        /\ call.ret.value \in BOOLEAN
        /\ call.ret.value <=> (XPathClick(call.arg) \/ FallbackClick(call.arg))

C29_Witness ==
    /\ Clicked
    /\ ~call.arg.waitForXPath
    /\ call.arg.evaluate = "true"
    /\ call.ret = Return(TRUE)

\* ---- claims about the slots of GET /api/horas
\* the slots were extracted from the rendered text
FromText == call.fn = "horas" /\ call.done /\ HorasFromXHR(call.arg.lastXHR) = <<>>
HasToken(line, kw) == \E i \in 1..Len(line) : UpperToken(line[i]) = kw
TimeOf(line) == line[FirstTime(line)]
\* every line carries a clock time and, optionally, DISPONIBLE or OCUPADO
TimeAndStatusLines ==
    \A k \in 1..Len(call.arg.lines) :
        /\ FirstTime(call.arg.lines[k]) > 0
        /\ ~HasToken(call.arg.lines[k], "RESERVADO")
\* the lines of the text that are not marked OCUPADO
AvailableLines == {k \in 1..Len(call.arg.lines) : ~HasToken(call.arg.lines[k], "OCUPADO")}
FirstAvailable(t) ==
    CHOOSE k \in AvailableLines :
        /\ TimeOf(call.arg.lines[k]) = t
        /\ \A j \in AvailableLines : TimeOf(call.arg.lines[j]) = t => k <= j

\* C21: from rendered lines that each carry a clock time and optionally
\* DISPONIBLE or OCUPADO, the result has exactly one entry per distinct clock
\* time of the available lines, in first-seen order, and no entry for a time
\* that appears only on OCUPADO lines.
C21_OneSlotPerAvailableTime ==
    (FromText /\ TimeAndStatusLines) =>
        /\ ~call.ret.throws
        /\ LET horas == call.ret.value.horas
               objects == call.ret.value.horas_objects
           IN  /\ Range(horas) = {TimeOf(call.arg.lines[k]) : k \in AvailableLines}
               /\ \A i, j \in 1..Len(horas) : i # j => horas[i] # horas[j]
               /\ \A i, j \in 1..Len(horas) :
                      i < j => FirstAvailable(horas[i]) < FirstAvailable(horas[j])
               /\ Len(objects) = Len(horas)
               /\ \A i \in 1..Len(objects) :
                      /\ objects[i].hora = horas[i]
                      /\ objects[i].estado # "OCUPADO"

C21_Witness ==
    /\ FromText
    /\ call.arg.lines = << <<"09:00", "DISPONIBLE">>, <<"09:00", "DISPONIBLE">>,
                           <<"10:30", "OCUPADO">> >>
    /\ call.ret.value.horas_objects = << [hora |-> "09:00", estado |-> "DISPONIBLE"] >>

\* C22: the presence of a clock time in the result is determined by its first
\* occurrence in the rendered text: a time whose first occurrence is marked
\* OCUPADO is not reported from a later occurrence.
C22_FirstOccurrenceWins ==
    (FromText /\ TimeAndStatusLines) =>
        \A t \in Range(call.ret.value.horas) :
            \E k \in AvailableLines :
                /\ TimeOf(call.arg.lines[k]) = t
                /\ \A j \in 1..(k - 1) : TimeOf(call.arg.lines[j]) # t

\* C30: a line whose captured keyword is OCUPADO or RESERVADO is not available:
\* every time of the result comes from a line whose captured keyword is neither.
C30_TakenLinesNeverReturned ==
    FromText =>
        \A t \in Range(call.ret.value.horas) :
            \E k \in 1..Len(call.arg.lines) :
                /\ Match(call.arg.lines[k]).matched
                /\ Match(call.arg.lines[k]).m1 = t
                /\ UpperToken(Match(call.arg.lines[k]).m2) \notin {"OCUPADO", "RESERVADO"}

\* ---- claims about the practitioners of GET /api/profesionales
Extracted == call.fn = "profesionales" /\ call.done
Objects == call.ret.value.profesionales_objects
Has(r, field, v) == field \in DOMAIN r /\ r[field] = v

\* C23: for every line 'Especialidad: X' immediately preceded by a name line N
\* and immediately followed by a line 'Sucursal: B', a returned practitioner
\* has name N, specialty X and branch B.
C23_PractitionerHasNameSpecialtyBranch ==
    Extracted =>
        \A i \in 2..(Len(call.arg.lines) - 1) :
            LET lines == call.arg.lines IN
            (/\ lines[i].kind = "especialidad"
             /\ lines[i - 1].kind = "text" /\ Len(lines[i - 1].text) > 3
             /\ lines[i + 1].kind = "sucursal")
            => \E k \in 1..Len(Objects) :
                   /\ Has(Objects[k], "nombre", lines[i - 1])
                   /\ Has(Objects[k], "especialidad", lines[i].text)
                   /\ Has(Objects[k], "sucursal", lines[i + 1].text)

\* the name of a practitioner after normalization of case, diacritics and white space
NormalName(l) == [kind |-> l.kind, text |-> normalizeStringNode(Str(l.text)).value]

\* C24: no two returned practitioners have names that are equal after
\* normalization, and the kept entries are in the order of their first
\* occurrences.
C24_PractitionersUniqueByNormalizedName ==
    Extracted =>
        \A i, j \in 1..Len(Objects) :
            i # j => NormalName(Objects[i].nombre) # NormalName(Objects[j].nombre)

\* ---- claims about the payloads of the three workflows
Responded == call.fn \in {"especialidades", "profesionales", "horas"} /\ call.done
\* the list of the payload
Items ==
    CASE call.fn = "especialidades" -> call.ret.value.especialidades
      [] call.fn = "profesionales" -> call.ret.value.profesionales
      [] call.fn = "horas" -> call.ret.value.horas
\* the page has nothing the extraction looks for
NothingMatched ==
    CASE call.fn = "especialidades" ->
            /\ \A i \in 1..Len(call.arg.cells) : call.arg.cells[i].length <= 3
            /\ \A i \in 1..Len(call.arg.lines) :
                   call.arg.lines[i].length <= 4 \/ call.arg.lines[i].menu
      [] call.fn = "profesionales" ->
            /\ \A i \in 2..Len(call.arg.lines) :
                   ~(call.arg.lines[i].kind = "especialidad"
                     /\ IsNombre(call.arg.lines[i - 1]))
            /\ \A i \in 1..Len(call.arg.els) : call.arg.els[i].length <= 5
      [] call.fn = "horas" ->
            /\ HorasFromXHR(call.arg.lastXHR) = <<>>
            /\ \A i \in 1..Len(call.arg.lines) : FirstTime(call.arg.lines[i]) = 0

\* C25: when the page rendered but nothing matched, or the waits timed out,
\* each workflow returns success:true, total 0 and an empty list and does not
\* throw; in every success payload total is the length of the returned list.
C25_EmptyExtractionIsSuccess ==
    Responded =>
        /\ ~call.ret.throws
        /\ call.ret.value.success
        /\ call.ret.value.total = Len(Items)
        /\ NothingMatched => call.ret.value.total = 0 /\ Items = <<>>

C25_Witness ==
    /\ Responded
    /\ call.fn = "horas"
    /\ ~call.arg.waitForResponse /\ ~call.arg.waitForFunction
    /\ call.arg.lines = << <<"x">> >>
    /\ call.ret.value.success /\ call.ret.value.total = 0

\* ---- claims about the source of the slots
SlotsReturned == call.fn = "horas" /\ call.done
Intercepted == HorasFromXHR(call.arg.lastXHR)
FirstIndex(ts, t) == CHOOSE i \in 1..Len(ts) : ts[i] = t /\ \A j \in 1..(i - 1) : ts[j] # t

\* C31: when the last intercepted response yields at least one clock time, the
\* result is the distinct intercepted times in first-seen order, each with
\* state DESCONOCIDO, whatever the rendered text is; when it yields none, or
\* nothing was intercepted, the result is computed from the rendered lines only.
C31_InterceptedTimesFirst ==
    SlotsReturned =>
        /\ ~call.ret.throws
        /\ LET horas == call.ret.value.horas
               objects == call.ret.value.horas_objects
           IN  IF Intercepted # <<>>
               THEN /\ Range(horas) = Range(Intercepted)
                    /\ \A i, j \in 1..Len(horas) :
                           i < j => FirstIndex(Intercepted, horas[i])
                                    < FirstIndex(Intercepted, horas[j])
                    /\ Len(objects) = Len(horas)
                    /\ \A i \in 1..Len(objects) :
                           objects[i] = [hora |-> horas[i], estado |-> "DESCONOCIDO"]
                    /\ \A ls \in SeqsUpTo(HoraLines, 1) :
                           HorasResponse([call.arg EXCEPT !.lines = ls]) = call.ret
               ELSE /\ HorasResponse([call.arg EXCEPT !.lastXHR = Null]) = call.ret
                    /\ \A i \in 1..Len(horas) :
                           \E k \in 1..Len(call.arg.lines) :
                               /\ Match(call.arg.lines[k]).matched
                               /\ HoraEntry(call.arg.lines[k]).hora = horas[i]
                               /\ HoraEntry(call.arg.lines[k]).disponible

C31_Witness ==
    /\ SlotsReturned
    /\ call.arg.lastXHR.type = "lastXHR"
    /\ call.arg.lastXHR.json.type = "object"
    /\ call.arg.lines = << <<"09:00", "OCUPADO">>, <<"10:30", "OCUPADO">> >>
    /\ call.ret.value.horas_objects = << [hora |-> "09:00", estado |-> "DESCONOCIDO"],
                                         [hora |-> "10:30", estado |-> "DESCONOCIDO"] >>

\* ---- claims about clickElementInSelectorByText
ElementClicked == call.fn = "clickElementInSelectorByText" /\ call.done /\ call.ret.value
TNorm == normalizeStringNode(call.arg.text).value
ExactMatch(el) == nInPage(el.title) = TNorm \/ nInPage(el.txt) = TNorm

\* C32: whenever some candidate's normalized title or normalized text equals
\* the normalized target, the element clicked is one with such an exact match,
\* not an earlier candidate whose text merely contains the target.
C32_ExactMatchPreferred ==
    (ElementClicked /\ \E i \in 1..Len(call.arg.elements) : ExactMatch(call.arg.elements[i]))
        => ExactMatch(call.arg.elements[call.ret.target])

\* C40: a specialty that is not empty but normalizes to the empty string never
\* has an element selected: the selection reports not found.
C40_BlankTargetSelectsNothing ==
    (/\ call.fn = "clickElementInSelectorByText" /\ call.done
     /\ call.arg.text.type = "string" /\ call.arg.text.chars # <<>>
     /\ normalizeStringNode(call.arg.text).value = <<>>)
        => ~call.ret.value /\ call.ret.target = 0

\* ---- claims about the cache keys
\* the response sent in this step comes from the cache
ServedFromCache == lastResponse' # lastResponse /\ lastResponse'.via = "cache"

\* C33: the cache keys of the practitioner and slot workflows are injective in
\* the request parameters: a cache hit returns a payload scraped for the same
\* source key, specialty and practitioner, for all parameter strings,
\* including ones containing '|'.
C33_CacheKeysInjective ==
    [][ServedFromCache => \A q \in HorasQueries :
          (/\ Valid(q)
           /\ q.kind \in {"profesionales", "horas"}
           /\ Request(q, MaxApiJobs, MaxBacklog)) =>
              /\ lastResponse'.body.kind = q.kind
              /\ lastResponse'.body.agenda = q.agenda
              /\ lastResponse'.body.especialidad = q.especialidad
              /\ lastResponse'.body.profesional = q.profesional]_vars

\* C34: every successful slot response carries the date given in its request
\* (the current date, "" here, when the request gave none), whether it was
\* scraped for this request or served from the cache.
C34_FechaIsTheRequestedDate ==
    [][/\ ServedFromCache => \A q \in HorasQueries :
              (Valid(q) /\ q.kind = "horas" /\ Request(q, MaxApiJobs, MaxBacklog)) =>
                  lastResponse'.body.fecha = q.fecha
       /\ (/\ lastResponse' # lastResponse
           /\ lastResponse'.via = "queue"
           /\ lastResponse'.body.success) =>
              \A w \in running :
                  (w.id = lastResponse'.id /\ w.kind = "horas") =>
                      lastResponse'.body.fecha = w.q.fecha]_vars

\* a scrape for the cache entry of q is queued or running
InFlight(q) ==
    \/ \E w \in running : w.kind = q.kind /\ CacheKey(w.q) = CacheKey(q)
    \/ \E i \in 1..Len(requestQueue) :
          requestQueue[i].q.kind = q.kind /\ CacheKey(requestQueue[i].q) = CacheKey(q)

\* C35: while a scrape for a cache key is queued or running, a further request
\* for the same key does not cause another scrape.
C35_OneScrapePerKey ==
    [][EndpointStep => \A q \in ApiQueries :
          (Valid(q) /\ InFlight(q) /\ Request(q, MaxApiJobs, MaxBacklog)) =>
              nextId' = nextId]_vars

\* ---- claims about the counter and the recycling
\* C36: in every reachable state 0 <= requestCount <= 6, and whenever the
\* browser handle is unset the counter is 0.
C36_CounterBounded ==
    /\ requestCount \in 0..RecycleThreshold
    /\ browser = NoBrowser => requestCount = 0

\* six workflows have completed on one browser: the counter is at the threshold
C36_Witness ==
    /\ requestCount = RecycleThreshold
    /\ browser # NoBrowser
    /\ settleLog # <<>>

\* C37: the recycling close of a handle happens only when no page created
\* from that handle is open: a workflow whose page is open works on a handle
\* that was never closed.
C37_NoRecycleUnderAnOpenPage ==
    \A w \in running :
        w.id \in openPages => \A c \in closeCalls : c.handle # w.handle

\* a page is open on the browser launched after a recycling close
C37_Witness ==
    /\ closeCalls # {}
    /\ \E w \in running : w.id \in openPages /\ w.handle = browser /\ launchCount = 2

\* ---- claims about the life of a job
NoDuplicates(s) == \A i, j \in 1..Len(s) : i # j => s[i] # s[j]
Waiting == {requestQueue[i].id : i \in 1..Len(requestQueue)}

\* every job submitted so far waits in the queue, once, or has started, once;
\* the started jobs are the running ones and the settled ones
OnceSoFar ==
    /\ NoDuplicates(startLog)
    /\ NoDuplicates(settleLog)
    /\ NoDuplicates([i \in 1..Len(requestQueue) |-> requestQueue[i].id])
    /\ Waiting \cup Range(startLog) = 1..nextId
    /\ Waiting \cap Range(startLog) = {}
    /\ Range(settleLog) \subseteq Range(startLog)
    /\ {w.id : w \in running} = Range(startLog) \ Range(settleLog)

\* a job leaves the queue in the step in which it starts, and a settlement
\* carries the result or the error of the handler that ended
OwnResult ==
    /\ StartStep =>
          /\ startLog'[Len(startLog')] \notin Range(startLog)
          /\ startLog'[Len(startLog')] \notin {requestQueue'[i].id : i \in 1..Len(requestQueue')}
    /\ SettleStep =>
          \E w \in running :
              /\ settleLog' = Append(settleLog, w.id)
              /\ lastSettle'.id = w.id
              /\ lastResponse'.id = w.id
              /\ lastResponse'.body.success =>
                     /\ lastSettle'.promise = "resolved"
                     /\ lastResponse'.body = ResponseObj(w.q)
              /\ lastSettle'.promise = "rejected" => lastResponse'.status = 500

\* C38: every job submitted with queueRequest has its handler invoked exactly
\* once and its promise settled exactly once, with the result or error of its
\* own handler; a job leaves the queue when it starts and never re-enters it.
C38_EachJobOnce ==
    /\ []OnceSoFar
    /\ [][OwnResult]_vars
    /\ \A j \in 1..MaxLiveJobs :
           (nextId >= j) ~> (j \in Range(startLog) /\ j \in Range(settleLog))

\* all the jobs of the behaviour were submitted, started and settled, the
\* last one while the others had long been settled
C38_Witness ==
    /\ nextId = MaxLiveJobs
    /\ startLog = settleLog
    /\ Len(settleLog) = MaxLiveJobs
    /\ requestQueue = <<>>
    /\ running = {}

\* ---- claims about the earlier revision
\* the step in which a workflow of the earlier revision calls getBrowser
LegacyGetBrowserStep == nextId' = nextId + 1

\* C39: in the earlier queued revision the browser is restarted every 10
\* requests: once 10 workflows have completed since the last launch, the next
\* getBrowser call closes the handle, resets the counter and launches a new
\* browser.
C39_RestartEveryTenRequests ==
    [][(LegacyGetBrowserStep /\ browser # NoBrowser /\ requestCount >= 10) =>
          /\ \E c \in closeCalls' \ closeCalls : c.handle = browser
          /\ requestCount' = 0
          /\ browser' # browser]_vars
====
